---------------------------- MODULE Spec2Model ----------------------------
(***************************************************************************)
(* A model of src/encoder.c: the x86-64 encoder (byte buffer, label table, *)
(* relocation table, emitters, linking) and the lifetime analysis of the   *)
(* pseudo-intermediate representation (analyse_function).                  *)
(*                                                                         *)
(* Bytes are the naturals 0..255.  A C `char` argument is modelled by its  *)
(* value modulo 256, which is the byte a store of it leaves in memory.     *)
(* Buffers are sequences; the C offset p is the index p + 1.               *)
(***************************************************************************)
EXTENDS Integers, Sequences, FiniteSets, TLC

VARIABLES
    enc,        \* struct x86_encoder
    target,     \* the memory x86_encoder_link_to_memory was handed, per destination
    calls,      \* history: the emitter / add_label / move_label calls made so far
    last_call,  \* the call that produced this state, and what it returned
    input,      \* operands of the register-register emitters (specification SpecModrm)
    fn,         \* struct Function handed to analyse_function
    a,          \* struct FunctionAnalysis
    pc,         \* position of analyse_function
    heap        \* the word that fills the memory malloc returns

vars == <<enc, target, calls, last_call, input, fn, a, pc, heap>>

encVars == <<enc, target, calls, last_call, input>>
irVars == <<fn, a, pc, heap>>

-----------------------------------------------------------------------------
(* Bounds of the model *)

\* Longest sequence of emitter / label calls explored on one encoder.
MaxCalls == 3
\* Longest sequence of register-register emitter calls explored per operand choice.
MaxModrmCalls == 2
\* Longest function of assignments and jumps handed to analyse_function.
MaxOpcodes == 4
\* Longest function of operand uses handed to analyse_function.
MaxOperandOpcodes == 2

-----------------------------------------------------------------------------
(* Program constants *)

X86_REG_A == 0
X86_REG_D == 2
X86_REG_R9 == 9

X86_COND_E == 4

X86_ADD_MODRM == 1
X86_OR_MODRM == 9
X86_ADC_MODRM == 17
X86_SBB_MODRM == 25
X86_AND_MODRM == 33
X86_SUB_MODRM == 41
X86_XOR_MODRM == 49
X86_CMP_MODRM == 57
X86_MOV_MODRM == 137

X86_MOV_REG_IMM_LONG(x) == 184 + x
X86_MOV_REG_IMM_LOW(x) == 176 + x
X86_PUSH_REG(x) == 80 + x
X86_POP_REG(x) == 88 + x

X86_CALL_REL32 == 232
X86_JMP_REL32 == 233
X86_0F == 15
X86_0F_JMP_COND_REL32(x) == 128 + x
X86_RET == 195
X86_NOP == 144
X86_OPERAND_SIZE_OVERRIDE == 102

X86_FF_MODRM == 255
X86_FF_MODRM_CALL == 2
X86_FF_MODRM_JMP == 4

X86_REX == 64
X86_REX_B == 1
X86_REX_X == 2
X86_REX_R == 4
X86_REX_W == 8

\* The increment of the three capacities (buffer: required + 1024).
CapacityIncrement == 1024

\* A byte of the buffer's capacity that no emitter has written yet.
Uninit == -1

-----------------------------------------------------------------------------
(* Integer stores *)

Max(x, y) == IF x >= y THEN x ELSE y

\* (c & 0x08) as a truth value, (c & 0x07) as a number
Bit3(c) == (c \div 8) % 2
Low3(c) == c % 8

\* The n bytes a little-endian store of the integer v leaves in memory
\* (two's complement: \div rounds down and % is non-negative).
RECURSIVE LE(_, _)
LE(v, n) == IF n = 0 THEN <<>> ELSE <<v % 256>> \o LE(v \div 256, n - 1)

\* The int32_t read back from four little-endian bytes.
S32(b) == b[1] + 256 * b[2] + 65536 * b[3]
          + 16777216 * (IF b[4] >= 128 THEN b[4] - 256 ELSE b[4])

\* mem with byte v stored at offset pos; memory between the end of mem and
\* pos is capacity that was never written.
Poke(mem, pos, v) ==
    [i \in 1..Max(Len(mem), pos + 1) |->
        IF i = pos + 1 THEN v
        ELSE IF i <= Len(mem) THEN mem[i] ELSE Uninit]

\* mem with the bytes bs stored from offset pos on.
RECURSIVE Store(_, _, _)
Store(mem, pos, bs) ==
    IF bs = <<>> THEN mem
    ELSE Store(Poke(mem, pos, Head(bs)), pos + 1, Tail(bs))

\* The n bytes of mem from offset pos on.
Load(mem, pos, n) == [i \in 1..n |-> mem[pos + i]]

-----------------------------------------------------------------------------
(* The encoder *)

\* memset(&enc, 0, sizeof enc)
ZeroEncoder ==
    [buffer |-> <<>>, buffer_size |-> 0, buffer_capacity |-> 0,
     labels |-> <<>>, labels_capacity |-> 0,
     relocations |-> <<>>, relocations_capacity |-> 0]

labels_size(e) == Len(e.labels)
relocations_size(e) == Len(e.relocations)

X86_REX_FIELD_Swapped(b, x, r, w) ==
    X86_REX + (IF b # 0 THEN X86_REX_R ELSE 0)
            + (IF x # 0 THEN X86_REX_X ELSE 0)
            + (IF r # 0 THEN X86_REX_B ELSE 0)
            + (IF w # 0 THEN X86_REX_W ELSE 0)

X86_REX_FIELD(b, x, r, w) ==
    X86_REX + (IF b # 0 THEN X86_REX_B ELSE 0)
            + (IF x # 0 THEN X86_REX_X ELSE 0)
            + (IF r # 0 THEN X86_REX_R ELSE 0)
            + (IF w # 0 THEN X86_REX_W ELSE 0)

\* struct x86_modrm, packed: rm in bits 0..2, reg in bits 3..5, mod in bits 6..7
x86_modrm(rm, reg, mod) == (rm % 8) + 8 * (reg % 8) + 64 * (mod % 4)

ENC_X_AlsoFirst(e, p, v) ==
    [e EXCEPT !.buffer = Poke(Poke(e.buffer, e.buffer_size + p, v), 0, v)]

\* ENC_X(enc, p) = v
ENC_X(e, p, v) == [e EXCEPT !.buffer = Poke(e.buffer, e.buffer_size + p, v)]

ENC_ADVANCE(e, amount) == [e EXCEPT !.buffer_size = e.buffer_size + amount]

\* *(uintN_t*)(&ENC_X(enc, p)) = value
ENC_STORE(e, p, bs) ==
    [e EXCEPT !.buffer = Store(e.buffer, e.buffer_size + p, bs)]

x86_encoder_check_buffer(e, required) ==
    IF e.buffer_size + required > e.buffer_capacity
    THEN [e EXCEPT !.buffer_capacity = e.buffer_capacity + required + CapacityIncrement]
    ELSE e

x86_encoder_move_label_ToZero(e, label) == [e EXCEPT !.labels[label + 1] = 0]

x86_encoder_move_label(e, label) ==
    [e EXCEPT !.labels[label + 1] = e.buffer_size]

x86_encoder_add_label(e) ==
    LET grown == IF labels_size(e) >= e.labels_capacity
                 THEN [e EXCEPT !.labels_capacity = e.labels_capacity + CapacityIncrement]
                 ELSE e
    IN [grown EXCEPT !.labels = Append(e.labels, e.buffer_size)]

\* The label id x86_encoder_add_label returns.
x86_encoder_add_label_ret(e) == labels_size(e)

x86_encoder_add_relocation(e, label, relative) ==
    LET grown == IF relocations_size(e) >= e.relocations_capacity
                 THEN [e EXCEPT !.relocations_capacity =
                                    e.relocations_capacity + CapacityIncrement]
                 ELSE e
    IN [grown EXCEPT !.relocations =
            Append(e.relocations,
                   [offset |-> e.buffer_size, label |-> label, relative |-> relative])]

\* The displacement a relative relocation stores.
RelocFrom_NoSkip(reloc) == reloc.offset
RelocFrom(reloc) == reloc.offset + 4

\* The loop of x86_encoder_apply_relocations_in_memory from relocation i
\* (1-based) on: the patched memory and the value returned.
RECURSIVE ApplyFrom(_, _, _, _)
ApplyFrom(e, t_buffer, base, i) ==
    IF i > relocations_size(e) THEN [mem |-> t_buffer, ret |-> 0]
    ELSE LET reloc == e.relocations[i]
             label == reloc.label
         IN IF label >= labels_size(e) THEN [mem |-> t_buffer, ret |-> 1]
            ELSE LET to == e.labels[label + 1]
                 IN IF reloc.relative # 0
                    THEN ApplyFrom(e, Store(t_buffer, reloc.offset,
                                            LE(to - RelocFrom(reloc), 4)), base, i + 1)
                    ELSE ApplyFrom(e, Store(t_buffer, reloc.offset,
                                            LE(base + to, 8)), base, i + 1)

x86_encoder_apply_relocations_in_memory(e, t_buffer, base) ==
    ApplyFrom(e, t_buffer, base, 1)

\* Patches the encoder's own buffer.
x86_encoder_apply_relocations(e, base) ==
    LET r == x86_encoder_apply_relocations_in_memory(e, e.buffer, base)
    IN [enc |-> [e EXCEPT !.buffer = r.mem], ret |-> r.ret]

\* memcpy(target, enc->buffer, enc->buffer_size)
memcpy(e) == Load(e.buffer, 0, e.buffer_size)

x86_encoder_link_to_memory_InPlace(e, t) ==
    LET r == x86_encoder_apply_relocations(e, t)
    IN [enc |-> r.enc, mem |-> Load(r.enc.buffer, 0, e.buffer_size), ret |-> r.ret]

\* The encoder afterwards, the target memory and the value returned; the
\* target's address t is the base.
x86_encoder_link_to_memory(e, t) ==
    LET r == x86_encoder_apply_relocations_in_memory(e, memcpy(e), t)
    IN [enc |-> e, mem |-> r.mem, ret |-> r.ret]

-----------------------------------------------------------------------------
(* Emitters *)

x86_encoder_prepare_modrm_rex(e, opcode, rm, reg, wide) ==
    LET e0 == ENC_X(e, 0, X86_REX_FIELD(Bit3(rm), 0, Bit3(reg), wide))
        e1 == ENC_X(e0, 1, opcode % 256)
    IN ENC_X(e1, 2, x86_modrm(Low3(rm), Low3(reg), 3))

x86_encoder_write_modrm_rex(e, opcode, rm, reg, wide) ==
    ENC_ADVANCE(
        x86_encoder_prepare_modrm_rex(x86_encoder_check_buffer(e, 3),
                                      opcode, rm, reg, wide), 3)

x86_encoder_write_jmp(e, call, label) ==
    LET opcode == IF call # 0 THEN X86_CALL_REL32 ELSE X86_JMP_REL32
        e0 == ENC_ADVANCE(ENC_X(x86_encoder_check_buffer(e, 5), 0, opcode), 1)
        e1 == ENC_STORE(e0, 0, LE(0, 4))
    IN ENC_ADVANCE(x86_encoder_add_relocation(e1, label, 1), 4)

x86_encoder_write_jmp_cond(e, cond, label) ==
    LET e0 == ENC_X(x86_encoder_check_buffer(e, 6), 0, X86_0F)
        e1 == ENC_ADVANCE(ENC_X(e0, 1, X86_0F_JMP_COND_REL32(cond)), 2)
        e2 == ENC_STORE(e1, 0, LE(0, 4))
    IN ENC_ADVANCE(x86_encoder_add_relocation(e2, label, 1), 4)

x86_encoder_write_jmp_reg(e, call, reg) ==
    x86_encoder_write_modrm_rex(e, X86_FF_MODRM, reg,
        IF call # 0 THEN X86_FF_MODRM_CALL ELSE X86_FF_MODRM_JMP, 1)

x86_encoder_write_cmp_reg(e, reg_1, reg_2) ==
    x86_encoder_write_modrm_rex(e, X86_CMP_MODRM, reg_1, reg_2, 1)

x86_encoder_write_modrm(e, opcode, reg_1, reg_2) ==
    x86_encoder_write_modrm_rex(e, opcode, reg_1, reg_2, 1)

x86_encoder_write_modrm_32(e, opcode, reg_1, reg_2) ==
    x86_encoder_write_modrm_rex(e, opcode, reg_1, reg_2, 0)

x86_encoder_write_modrm_16(e, opcode, reg_1, reg_2) ==
    LET e0 == ENC_ADVANCE(ENC_X(x86_encoder_check_buffer(e, 4), 0,
                                X86_OPERAND_SIZE_OVERRIDE), 1)
    IN ENC_ADVANCE(x86_encoder_prepare_modrm_rex(e0, opcode, reg_1, reg_2, 0), 3)

x86_encoder_write_modrm_8(e, opcode, reg_1, reg_2) ==
    x86_encoder_write_modrm_rex(e, opcode - 1, reg_1, reg_2, 0)

x86_encoder_write_mov_imm_64(e, reg, value) ==
    LET e0 == ENC_X(x86_encoder_check_buffer(e, 11), 0, X86_REX_FIELD(Bit3(reg), 0, 0, 1))
        e1 == ENC_X(e0, 1, X86_MOV_REG_IMM_LONG(Low3(reg)))
    IN ENC_ADVANCE(ENC_STORE(e1, 2, LE(value, 8)), 2 + 8)

x86_encoder_write_mov_imm_32(e, reg, value) ==
    LET e0 == ENC_X(x86_encoder_check_buffer(e, 6), 0, X86_REX_FIELD(Bit3(reg), 0, 0, 0))
        e1 == ENC_X(e0, 1, X86_MOV_REG_IMM_LONG(Low3(reg)))
    IN ENC_ADVANCE(ENC_STORE(e1, 2, LE(value, 4)), 2 + 4)

x86_encoder_write_mov_imm_16(e, reg, value) ==
    LET e0 == ENC_X(x86_encoder_check_buffer(e, 5), 0, X86_OPERAND_SIZE_OVERRIDE)
        e1 == ENC_X(e0, 1, X86_REX_FIELD(Bit3(reg), 0, 0, 0))
        e2 == ENC_X(e1, 2, X86_MOV_REG_IMM_LONG(Low3(reg)))
    IN ENC_ADVANCE(ENC_STORE(e2, 3, LE(value, 2)), 3 + 2)

x86_encoder_write_mov_imm_8(e, reg, value) ==
    LET e0 == ENC_X(x86_encoder_check_buffer(e, 3), 0, X86_REX_FIELD(Bit3(reg), 0, 0, 0))
        e1 == ENC_X(e0, 1, X86_MOV_REG_IMM_LOW(Low3(reg)))
    IN ENC_ADVANCE(ENC_STORE(e1, 2, LE(value, 1)), 2 + 1)

x86_encoder_write_push(e, reg) ==
    LET e0 == ENC_X(x86_encoder_check_buffer(e, 2), 0, X86_REX_FIELD(Bit3(reg), 0, 0, 0))
    IN ENC_ADVANCE(ENC_X(e0, 1, X86_PUSH_REG(Low3(reg))), 2)

x86_encoder_write_pop(e, reg) ==
    LET e0 == ENC_X(x86_encoder_check_buffer(e, 2), 0, X86_REX_FIELD(Bit3(reg), 0, 0, 0))
    IN ENC_ADVANCE(ENC_X(e0, 1, X86_POP_REG(Low3(reg))), 2)

x86_encoder_write_ret(e) ==
    ENC_ADVANCE(ENC_X(x86_encoder_check_buffer(e, 1), 0, X86_RET), 1)

x86_encoder_write_nop(e) ==
    ENC_ADVANCE(ENC_X(x86_encoder_check_buffer(e, 1), 0, X86_NOP), 1)

-----------------------------------------------------------------------------
(* Calls on an encoder.  A call is [f |-> name, args |-> arguments].       *)

EmitterNames ==
    {"write_jmp", "write_jmp_cond", "write_jmp_reg", "write_cmp_reg",
     "write_modrm", "write_modrm_32", "write_modrm_16", "write_modrm_8",
     "write_mov_imm_64", "write_mov_imm_32", "write_mov_imm_16",
     "write_mov_imm_8", "write_push", "write_pop", "write_ret", "write_nop"}

LabelNames == {"add_label", "move_label"}

C(f, args) == [f |-> f, args |-> args]

\* The encoder after the call c.
Call(c, e) ==
    LET x == c.args IN
    CASE c.f = "add_label"        -> x86_encoder_add_label(e)
      [] c.f = "move_label"       -> x86_encoder_move_label(e, x[1])
      [] c.f = "write_jmp"        -> x86_encoder_write_jmp(e, x[1], x[2])
      [] c.f = "write_jmp_cond"   -> x86_encoder_write_jmp_cond(e, x[1], x[2])
      [] c.f = "write_jmp_reg"    -> x86_encoder_write_jmp_reg(e, x[1], x[2])
      [] c.f = "write_cmp_reg"    -> x86_encoder_write_cmp_reg(e, x[1], x[2])
      [] c.f = "write_modrm"      -> x86_encoder_write_modrm(e, x[1], x[2], x[3])
      [] c.f = "write_modrm_32"   -> x86_encoder_write_modrm_32(e, x[1], x[2], x[3])
      [] c.f = "write_modrm_16"   -> x86_encoder_write_modrm_16(e, x[1], x[2], x[3])
      [] c.f = "write_modrm_8"    -> x86_encoder_write_modrm_8(e, x[1], x[2], x[3])
      [] c.f = "write_mov_imm_64" -> x86_encoder_write_mov_imm_64(e, x[1], x[2])
      [] c.f = "write_mov_imm_32" -> x86_encoder_write_mov_imm_32(e, x[1], x[2])
      [] c.f = "write_mov_imm_16" -> x86_encoder_write_mov_imm_16(e, x[1], x[2])
      [] c.f = "write_mov_imm_8"  -> x86_encoder_write_mov_imm_8(e, x[1], x[2])
      [] c.f = "write_push"       -> x86_encoder_write_push(e, x[1])
      [] c.f = "write_pop"        -> x86_encoder_write_pop(e, x[1])
      [] c.f = "write_ret"        -> x86_encoder_write_ret(e)
      [] c.f = "write_nop"        -> x86_encoder_write_nop(e)

\* What the call returns (void calls: 0).
CallRet(c, e) == IF c.f = "add_label" THEN x86_encoder_add_label_ret(e) ELSE 0

\* A zeroed encoder taken through the calls cs, in order.
RECURSIVE Replay(_)
Replay(cs) ==
    IF cs = <<>> THEN ZeroEncoder
    ELSE Call(cs[Len(cs)], Replay(SubSeq(cs, 1, Len(cs) - 1)))

-----------------------------------------------------------------------------
(* Inputs of the encoder's operations *)

\* Label ids handed to the jump emitters; an id may name no label (yet).
JmpLabels == {0, 1}
Regs == {X86_REG_R9}
RegPairs == {<<X86_REG_A, X86_REG_D>>}
Opcodes == {X86_MOV_MODRM}
Conds == {X86_COND_E}
CallFlags == {0, 1}
Imm64 == {305419896}             \* 0x12345678
Imm32 == {305419896}
Imm16 == {4660}                  \* 0x1234
Imm8 == {18}                     \* 0x12
\* Destinations of x86_encoder_link_to_memory and their addresses.
Dests == {1, 2}
TargetAddr(d) == 4096 * d
\* Bases handed to x86_encoder_apply_relocations.
Bases == {0}

\* The analysis is idle while the encoder runs.
IdleFunction == [opcodes |-> <<>>, variables_size |-> 0]
IdleAnalysis == [infos |-> <<>>, variables |-> <<>>]
IdleIR ==
    /\ fn = IdleFunction
    /\ a = IdleAnalysis
    /\ pc = [phase |-> "idle", i |-> 0]
    /\ heap = 0

InitEnc ==
    /\ enc = ZeroEncoder
    /\ target = [d \in Dests |-> <<>>]
    /\ calls = <<>>
    /\ last_call = [f |-> "memset", args |-> <<>>, ret |-> 0]

Init ==
    /\ InitEnc
    /\ input = <<>>
    /\ IdleIR

\* One emitter or label call c on the encoder.
Step(c) ==
    /\ enc' = Call(c, enc)
    /\ calls' = Append(calls, c)
    /\ last_call' = [f |-> c.f, args |-> c.args, ret |-> CallRet(c, enc)]
    /\ UNCHANGED <<target, input>>
    /\ UNCHANGED irVars

AddLabel ==
    /\ Len(calls) < MaxCalls
    /\ Step(C("add_label", <<>>))

\* Only an existing label is moved: labels[label] is outside the table otherwise.
MoveLabel ==
    /\ Len(calls) < MaxCalls
    /\ \E label \in 0..(labels_size(enc) - 1) : Step(C("move_label", <<label>>))

WriteJmp ==
    /\ Len(calls) < MaxCalls
    /\ \E call \in CallFlags, label \in JmpLabels : Step(C("write_jmp", <<call, label>>))

WriteJmpCond ==
    /\ Len(calls) < MaxCalls
    /\ \E cond \in Conds, label \in JmpLabels : Step(C("write_jmp_cond", <<cond, label>>))

WriteJmpReg ==
    /\ Len(calls) < MaxCalls
    /\ \E call \in CallFlags, reg \in Regs : Step(C("write_jmp_reg", <<call, reg>>))

WriteCmpReg ==
    /\ Len(calls) < MaxCalls
    /\ \E r \in RegPairs : Step(C("write_cmp_reg", r))

WriteModrm ==
    /\ Len(calls) < MaxCalls
    /\ \E o \in Opcodes, r \in RegPairs : Step(C("write_modrm", <<o>> \o r))

WriteModrm32 ==
    /\ Len(calls) < MaxCalls
    /\ \E o \in Opcodes, r \in RegPairs : Step(C("write_modrm_32", <<o>> \o r))

WriteModrm16 ==
    /\ Len(calls) < MaxCalls
    /\ \E o \in Opcodes, r \in RegPairs : Step(C("write_modrm_16", <<o>> \o r))

WriteModrm8 ==
    /\ Len(calls) < MaxCalls
    /\ \E o \in Opcodes, r \in RegPairs : Step(C("write_modrm_8", <<o>> \o r))

WriteMovImm64 ==
    /\ Len(calls) < MaxCalls
    /\ \E reg \in Regs, v \in Imm64 : Step(C("write_mov_imm_64", <<reg, v>>))

WriteMovImm32 ==
    /\ Len(calls) < MaxCalls
    /\ \E reg \in Regs, v \in Imm32 : Step(C("write_mov_imm_32", <<reg, v>>))

WriteMovImm16 ==
    /\ Len(calls) < MaxCalls
    /\ \E reg \in Regs, v \in Imm16 : Step(C("write_mov_imm_16", <<reg, v>>))

WriteMovImm8 ==
    /\ Len(calls) < MaxCalls
    /\ \E reg \in Regs, v \in Imm8 : Step(C("write_mov_imm_8", <<reg, v>>))

WritePush ==
    /\ Len(calls) < MaxCalls
    /\ \E reg \in Regs : Step(C("write_push", <<reg>>))

WritePop ==
    /\ Len(calls) < MaxCalls
    /\ \E reg \in Regs : Step(C("write_pop", <<reg>>))

WriteRet ==
    /\ Len(calls) < MaxCalls
    /\ Step(C("write_ret", <<>>))

WriteNop ==
    /\ Len(calls) < MaxCalls
    /\ Step(C("write_nop", <<>>))

ApplyRelocations ==
    \E base \in Bases :
        LET r == x86_encoder_apply_relocations(enc, base)
        IN /\ enc' = r.enc
           /\ last_call' = [f |-> "apply_relocations", args |-> <<base>>, ret |-> r.ret]
           /\ UNCHANGED <<target, calls, input>>
           /\ UNCHANGED irVars

LinkToMemory ==
    \E d \in Dests :
        LET r == x86_encoder_link_to_memory(enc, TargetAddr(d))
        IN /\ enc' = r.enc
           /\ target' = [target EXCEPT ![d] = r.mem]
           /\ last_call' = [f |-> "link_to_memory", args |-> <<d>>, ret |-> r.ret]
           /\ UNCHANGED <<calls, input>>
           /\ UNCHANGED irVars

\* Every emitter and label operation, on one encoder.
Next ==
    \/ AddLabel
    \/ MoveLabel
    \/ WriteJmp
    \/ WriteJmpCond
    \/ WriteJmpReg
    \/ WriteCmpReg
    \/ WriteModrm
    \/ WriteModrm32
    \/ WriteModrm16
    \/ WriteModrm8
    \/ WriteMovImm64
    \/ WriteMovImm32
    \/ WriteMovImm16
    \/ WriteMovImm8
    \/ WritePush
    \/ WritePop
    \/ WriteRet
    \/ WriteNop

\* Linking: the operations that create labels and relocations, two emitters
\* that only append bytes (of one and of three bytes), and the two link
\* operations, in any order and any number of times.
NextLink ==
    \/ AddLabel
    \/ MoveLabel
    \/ WriteJmp
    \/ WriteJmpCond
    \/ WriteCmpReg
    \/ WriteNop
    \/ ApplyRelocations
    \/ LinkToMemory

Spec == Init /\ [][Next]_vars

SpecLink == Init /\ [][NextLink]_vars

-----------------------------------------------------------------------------
(* The register-register emitters on every operand choice *)

ModrmOpcodes ==
    {X86_ADD_MODRM, X86_OR_MODRM, X86_ADC_MODRM, X86_SBB_MODRM, X86_AND_MODRM,
     X86_SUB_MODRM, X86_XOR_MODRM, X86_CMP_MODRM, X86_MOV_MODRM}
RegIndices == 0..15

\* input = <<opcode, rm, reg>>, the operands of every call of the run.
InitModrm ==
    /\ InitEnc
    /\ input \in ModrmOpcodes \X RegIndices \X RegIndices
    /\ IdleIR

ModrmWrite64 ==
    /\ Len(calls) < MaxModrmCalls
    /\ Step(C("write_modrm", input))
ModrmWrite32 ==
    /\ Len(calls) < MaxModrmCalls
    /\ Step(C("write_modrm_32", input))
ModrmWrite16 ==
    /\ Len(calls) < MaxModrmCalls
    /\ Step(C("write_modrm_16", input))
ModrmWrite8 ==
    /\ Len(calls) < MaxModrmCalls
    /\ Step(C("write_modrm_8", input))

NextModrm ==
    \/ ModrmWrite64
    \/ ModrmWrite32
    \/ ModrmWrite16
    \/ ModrmWrite8

SpecModrm == InitModrm /\ [][NextModrm]_vars

-----------------------------------------------------------------------------
(* Properties of the encoder *)

RelocIndices(e) == 1..relocations_size(e)

\* The signed 32-bit integer at relocation i's four placeholder bytes in mem.
Displacement(mem, e, i) == S32(Load(mem, e.relocations[i].offset, 4))

\* The placeholder of relocation i follows an E8 / E9 or a 0F 8x opcode.
AfterJumpOpcode(e, i) ==
    LET off == e.relocations[i].offset
    IN \/ e.buffer[off] \in {X86_CALL_REL32, X86_JMP_REL32}
       \/ /\ off >= 2
          /\ e.buffer[off - 1] = X86_0F
          /\ e.buffer[off] \in {X86_0F_JMP_COND_REL32(c) : c \in 0..15}

\* Relocation i of e names an existing label, and mem holds the displacement
\* to it at the placeholder.
Resolved(mem, e, i) ==
    LET reloc == e.relocations[i]
    IN Displacement(mem, e, i) = e.labels[reloc.label + 1] - (reloc.offset + 4)

AppliedAtBase0 ==
    last_call.f = "apply_relocations" /\ last_call.args = <<0>>

\* C1 as stated: after x86_encoder_apply_relocations(base = 0), every jump
\* to an existing label holds L_off - (patch_offset + 4) at its placeholder,
\* whatever else was emitted.
C1_RoundtripAlways ==
    AppliedAtBase0 =>
        \A i \in RelocIndices(enc) :
            enc.relocations[i].label < labels_size(enc) => Resolved(enc.buffer, enc, i)

\* C1, amended: after x86_encoder_apply_relocations(base = 0) has returned 0,
\* the placeholder of every emitted jump lies right after its opcode and
\* holds, as a signed 32-bit little-endian integer, L_off - (patch_offset + 4).
C1_RoundtripOnSuccess ==
    (AppliedAtBase0 /\ last_call.ret = 0) =>
        \A i \in RelocIndices(enc) :
            /\ enc.relocations[i].label < labels_size(enc)
            /\ AfterJumpOpcode(enc, i)
            /\ Resolved(enc.buffer, enc, i)

\* C1's case: a successful link with a backward jump (displacement -6) and
\* a jump that is not backward.
C1_Witness ==
    /\ AppliedAtBase0
    /\ last_call.ret = 0
    /\ \E i \in RelocIndices(enc) : Displacement(enc.buffer, enc, i) = -6
    /\ \E i \in RelocIndices(enc) : Displacement(enc.buffer, enc, i) >= 0

\* The memory a link operation patched, before and after the step.
PatchedBefore == enc.buffer
PatchedAfter ==
    IF last_call'.f = "link_to_memory" THEN target'[last_call'.args[1]]
    ELSE enc'.buffer

\* C2: when apply_relocations or link_to_memory returns failure, no
\* relocation placeholder of the patched buffer has been overwritten.
C2_NoPartialLinking ==
    [][(last_call'.f \in {"apply_relocations", "link_to_memory"} /\ last_call'.ret = 1)
        => \A i \in RelocIndices(enc) :
               Load(PatchedAfter, enc.relocations[i].offset, 4)
                   = Load(PatchedBefore, enc.relocations[i].offset, 4)]_vars

\* C3: link_to_memory leaves the encoder as it was, and the destination
\* holds the bytes a single link_to_memory to it produces on a fresh encoder
\* taken through the same emitter and label calls; so does a link that
\* follows a link to the other destination.
C3_LinkIdempotent ==
    [][last_call'.f = "link_to_memory"
        => LET d == last_call'.args[1]
               fresh == x86_encoder_link_to_memory(Replay(calls), TargetAddr(d))
           IN /\ enc' = enc
              /\ target'[d] = fresh.mem
              /\ last_call'.ret = fresh.ret]_vars

\* C3's case: destination 2 was linked after destination 1, with a
\* relocation patched to a non-zero displacement that the encoder's own
\* buffer does not hold.
C3_Witness ==
    /\ last_call.f = "link_to_memory"
    /\ last_call.args = <<2>>
    /\ last_call.ret = 0
    /\ target[1] # <<>>
    /\ target[2] = target[1]
    /\ \E i \in RelocIndices(enc) :
           /\ Displacement(target[2], enc, i) # 0
           /\ Displacement(enc.buffer, enc, i) = 0

\* The number of bytes each emitter appends (the label operations: none).
EmitterLength(c) ==
    CASE c.f \in {"add_label", "move_label"} -> 0
      [] c.f \in {"write_ret", "write_nop"} -> 1
      [] c.f \in {"write_push", "write_pop"} -> 2
      [] c.f \in {"write_jmp_reg", "write_cmp_reg", "write_modrm",
                  "write_modrm_32", "write_modrm_8", "write_mov_imm_8"} -> 3
      [] c.f = "write_modrm_16" -> 4
      [] c.f \in {"write_jmp", "write_mov_imm_16"} -> 5
      [] c.f \in {"write_jmp_cond", "write_mov_imm_32"} -> 6
      [] c.f = "write_mov_imm_64" -> 10

\* The bytes the emitter call c produces by itself, on an empty buffer.
EmitterBytes(c) ==
    IF c.f \in LabelNames THEN <<>>
    ELSE LET e == Call(c, ZeroEncoder) IN Load(e.buffer, 0, e.buffer_size)

RECURSIVE Concatenation(_)
Concatenation(cs) ==
    IF cs = <<>> THEN <<>>
    ELSE Concatenation(SubSeq(cs, 1, Len(cs) - 1)) \o EmitterBytes(cs[Len(cs)])

RECURSIVE SumOfLengths(_)
SumOfLengths(cs) ==
    IF cs = <<>> THEN 0
    ELSE SumOfLengths(SubSeq(cs, 1, Len(cs) - 1)) + EmitterLength(cs[Len(cs)])

\* C4: after every emitter, add_label or move_label call the buffer is the
\* concatenation, in call order, of the bytes of each emitter, its length is
\* the sum of the emitters' lengths, and the call changed no byte below the
\* buffer size that held before it.
C4_AppendOnly ==
    [][/\ enc'.buffer_size = SumOfLengths(calls')
       /\ enc'.buffer = Concatenation(calls')
       /\ enc'.buffer_size >= enc.buffer_size
       /\ \A i \in 1..enc.buffer_size : enc'.buffer[i] = enc.buffer[i]]_vars

\* C4's case: a third emitter has appended to the bytes of two others, one of
\* them a jump.
C4_Witness ==
    /\ Len(calls) = 3
    /\ \A i \in 1..3 : calls[i].f \in EmitterNames
    /\ calls[2].f = "write_jmp"
    /\ enc.buffer_size = Len(enc.buffer)
    /\ enc.buffer_size >= 9

AddLabelCalls(cs) == Cardinality({i \in 1..Len(cs) : cs[i].f = "add_label"})

\* C5: the buffer size never decreases; add_label returns 0, 1, 2, ... in
\* creation order; every label's offset is at most the buffer size;
\* add_label and move_label set the label to the buffer size at the call
\* and change no other label.
C5_LabelTable ==
    [][/\ enc'.buffer_size >= enc.buffer_size
       /\ \A l \in 1..labels_size(enc') : enc'.labels[l] <= enc'.buffer_size
       /\ last_call'.f = "add_label" =>
              /\ last_call'.ret = AddLabelCalls(calls)
              /\ enc'.labels = Append(enc.labels, enc.buffer_size)
       /\ last_call'.f = "move_label" =>
              enc'.labels = [enc.labels EXCEPT ![last_call'.args[1] + 1] = enc.buffer_size]]_vars

\* C5's case: a label was moved to the end of a buffer that holds bytes,
\* after an add_label that returned its id.
C5_Witness ==
    /\ last_call.f = "move_label"
    /\ AddLabelCalls(calls) = labels_size(enc)
    /\ labels_size(enc) >= 1
    /\ enc.labels[last_call.args[1] + 1] = enc.buffer_size
    /\ enc.buffer_size > 0

\* REX and ModR/M as the encoding tables give them.
RexByte(W, rm, reg) == 64 + 8 * W + 4 * (reg \div 8) + (rm \div 8)
ModrmByte(rm, reg) == 192 + 8 * (reg % 8) + (rm % 8)

\* The bytes the last call appended.
LastBytes ==
    LET n == EmitterLength(calls[Len(calls)])
    IN Load(enc.buffer, enc.buffer_size - n, n)

\* C6: for every opcode of the nine and every rm, reg in 0..15 the emitters
\* append REX opcode ModR/M with REX = 0x40 | W<<3 | (reg>>3)<<2 | (rm>>3)
\* and ModR/M = 0xC0 | (reg&7)<<3 | (rm&7): W = 1 for 64 bits, W = 0 for 32,
\* 0x66 before the W = 0 form for 16, opcode - 1 in the W = 0 form for 8.
C6_ModrmEncoding ==
    calls # <<>> =>
        LET opcode == input[1]
            rm == input[2]
            reg == input[3]
            f == calls[Len(calls)].f
        IN LastBytes =
             CASE f = "write_modrm" ->
                    <<RexByte(1, rm, reg), opcode, ModrmByte(rm, reg)>>
               [] f = "write_modrm_32" ->
                    <<RexByte(0, rm, reg), opcode, ModrmByte(rm, reg)>>
               [] f = "write_modrm_16" ->
                    <<102, RexByte(0, rm, reg), opcode, ModrmByte(rm, reg)>>
               [] f = "write_modrm_8" ->
                    <<RexByte(0, rm, reg), opcode - 1, ModrmByte(rm, reg)>>

\* C6's case: the 16-bit MOV with rm = r9 and reg = rdx, emitted after
\* another instruction: 66 41 89 D1.
C6_Witness ==
    /\ Len(calls) = 2
    /\ calls[2].f = "write_modrm_16"
    /\ input = <<X86_MOV_MODRM, X86_REG_R9, X86_REG_D>>
    /\ LastBytes = <<102, 65, 137, 209>>

-----------------------------------------------------------------------------
(* The pseudo-intermediate representation *)

OPERAND_INFO_TYPE_IMMEDIATE == 0
OPERAND_INFO_TYPE_VARIABLE == 1
OPERAND_INFO_TYPE_FUNCTION == 4
OPERAND_FLAG_ADDRESS == 1
OPERAND_FLAG_DEREFERENCE == 2

OPCODE_NOP == 0
OPCODE_COPY == 1
OPCODE_ADD == 2
OPCODE_NOT == 6
OPCODE_BIT_NEG == 9
OPCODE_GOTO_BASE == 16
OPCODE_GOTO_COND(comparison_type) == OPCODE_GOTO_BASE + comparison_type
OPCODE_COMPARE_BASE == 24
OPCODE_SET_ARGUMENT == 32
OPCODE_CALL == 33
OPCODE_RETURN == 34

COMPARISON_EQUAL == 1

OPERAND_TARGET == 0
OPERAND_PRIMARY_1 == 1
OPERAND_PRIMARY_2 == 2

\* Flag words are the sets of their bits.
VARIABLE_INFO_UNUSED == 2
VARIABLE_INFO_ETERNAL == 4
VARIABLE_INFO_UNINITIALIZED == 16

\* op->operands[k]
Operand(op, k) == op.operands[k + 1]

opcode_is_jump(x) ==
    (x.type >= OPCODE_GOTO_BASE) /\ (x.type < OPCODE_GOTO_BASE + 8)

opcode_is_pure_assignment(x) ==
    IF x.type = OPCODE_COPY THEN TRUE
    ELSE IF x.type = OPCODE_CALL THEN TRUE
    ELSE FALSE

opcode_modifies_target_operand(x) ==
    IF x.type >= 1 /\ x.type <= 15 THEN TRUE
    ELSE IF x.type >= OPCODE_COMPARE_BASE /\ x.type < OPCODE_COMPARE_BASE + 8 THEN TRUE
    ELSE IF x.type = OPCODE_CALL THEN TRUE
    ELSE FALSE

opcode_read_operand_primary_1(x) ==
    IF x.type = OPCODE_COMPARE_BASE \/ x.type = OPCODE_GOTO_BASE THEN FALSE
    ELSE IF x.type = OPCODE_NOP THEN FALSE
    ELSE TRUE

opcode_read_operand_primary_2(x) ==
    IF ~opcode_read_operand_primary_1(x) THEN FALSE
    ELSE IF x.type \in {OPCODE_RETURN, OPCODE_CALL, OPCODE_SET_ARGUMENT,
                        OPCODE_BIT_NEG, OPCODE_NOT, OPCODE_COPY} THEN FALSE
    ELSE TRUE

\* a->infos[i].  A read beyond the array loads words that are not part of
\* it: of the outcomes in which the analysis returns, the one that ends the
\* scan at once (every other one ends the lifetime later still).
Info(infos, i) ==
    IF i + 1 \in DOMAIN infos THEN infos[i + 1]
    ELSE [previous_label |-> -1, jump_from |-> -1]

\* The inner while loop of extend_variable_lifetime: the labels from pos
\* down to minimum, along previous_label; the new max_jmp_pos.
RECURSIVE ScanLabels(_, _, _, _)
ScanLabels(infos, pos, minimum, max_jmp_pos) ==
    IF pos >= minimum
    THEN ScanLabels(infos, Info(infos, pos).previous_label, minimum,
                    IF Info(infos, pos).jump_from > max_jmp_pos
                    THEN Info(infos, pos).jump_from
                    ELSE max_jmp_pos)
    ELSE max_jmp_pos

\* The do-while loop of extend_variable_lifetime: the new lifetime_end.
RECURSIVE JumpClosure(_, _, _)
JumpClosure(infos, minimum, max_jmp_pos) ==
    LET maximum == max_jmp_pos + 1
        found == ScanLabels(infos, max_jmp_pos, minimum, max_jmp_pos)
    IN IF found >= maximum THEN JumpClosure(infos, maximum, found) ELSE maximum

extend_variable_lifetime(an, var, index, pure_assignment) ==
    IF \/ var.lifetime_end >= index
       \/ VARIABLE_INFO_ETERNAL \in var.flags
       \/ VARIABLE_INFO_UNINITIALIZED \in var.flags
    THEN var
    ELSE IF var.lifetime_start = -1
    THEN IF pure_assignment
         THEN [lifetime_start |-> index,
               flags |-> var.flags \cup {VARIABLE_INFO_UNUSED},
               lifetime_end |-> index + 1]
         ELSE [var EXCEPT !.flags =
                   @ \cup {VARIABLE_INFO_ETERNAL, VARIABLE_INFO_UNINITIALIZED}]
    ELSE LET flags == IF pure_assignment
                      THEN var.flags \cup {VARIABLE_INFO_UNUSED}
                      ELSE var.flags \ {VARIABLE_INFO_UNUSED}
             minimum == IF var.lifetime_end < var.lifetime_start
                        THEN var.lifetime_start
                        ELSE var.lifetime_end
         IN [lifetime_start |-> var.lifetime_start,
             flags |-> flags,
             lifetime_end |-> JumpClosure(an.infos, minimum, index)]

operand_is_variable(operand) ==
    operand.info_type = OPERAND_INFO_TYPE_VARIABLE

operand_is_variable_address_load_Dereference(operand) ==
    operand_is_variable(operand) /\ OPERAND_FLAG_DEREFERENCE \in operand.info_flags

\* info_flags | OPERAND_FLAG_ADDRESS: the union of the bits, which is never 0.
operand_is_variable_address_load(operand) ==
    operand_is_variable(operand)
        /\ (operand.info_flags \cup {OPERAND_FLAG_ADDRESS}) # {}

\* "Generate label data": the loop from opcode i down to 0.
RECURSIVE GenerateLabelData(_, _, _)
GenerateLabelData(f, infos, i) ==
    IF i < 0 THEN infos
    ELSE LET op == f.opcodes[i + 1]
             label == Operand(op, OPERAND_TARGET).ref_id
         IN IF opcode_is_jump(op) /\ ~(Info(infos, label).jump_from >= 0)
            THEN GenerateLabelData(f, [infos EXCEPT ![label + 1].jump_from = i], i - 1)
            ELSE GenerateLabelData(f, infos, i - 1)

\* "Build previous label list": the loop from opcode i on.
RECURSIVE BuildPreviousLabels(_, _, _)
BuildPreviousLabels(infos, i, previous_label) ==
    IF i >= Len(infos) THEN infos
    ELSE BuildPreviousLabels([infos EXCEPT ![i + 1].previous_label = previous_label],
                             i + 1,
                             IF Info(infos, i).jump_from >= 0 THEN i ELSE previous_label)

\* an with extend_variable_lifetime applied to the variable the operand names.
Extend(an, operand, index, pure_assignment) ==
    [an EXCEPT !.variables[operand.ref_id + 1] =
        extend_variable_lifetime(an, @, index, pure_assignment)]

\* an with the variable the operand names flagged ETERNAL.
SetEternal(an, operand) ==
    [an EXCEPT !.variables[operand.ref_id + 1].flags = @ \cup {VARIABLE_INFO_ETERNAL}]

\* One primary operand of "Calculate variable lifetimes".
PrimaryOperand(an, operand, reads, i) ==
    IF operand_is_variable_address_load(operand) THEN SetEternal(an, operand)
    ELSE IF operand_is_variable(operand) /\ reads THEN Extend(an, operand, i, FALSE)
    ELSE an

\* The body of "Calculate variable lifetimes" for opcode i.
CalculateLifetime(f, an, i) ==
    LET op == f.opcodes[i + 1]
        pure_assign == opcode_is_pure_assignment(op)
        a0 == IF /\ operand_is_variable(Operand(op, OPERAND_TARGET))
                 /\ (pure_assign \/ opcode_modifies_target_operand(op))
              THEN Extend(an, Operand(op, OPERAND_TARGET), i, pure_assign)
              ELSE an
        a1 == PrimaryOperand(a0, Operand(op, OPERAND_PRIMARY_1),
                             opcode_read_operand_primary_1(op), i)
    IN PrimaryOperand(a1, Operand(op, OPERAND_PRIMARY_2),
                      opcode_read_operand_primary_2(op), i)

-----------------------------------------------------------------------------
(* Functions handed to analyse_function *)

Operation(type, t, p1, p2) == [type |-> type, operands |-> <<t, p1, p2>>]
Imm == [ref_id |-> 0, info_type |-> OPERAND_INFO_TYPE_IMMEDIATE, info_flags |-> {}]
Var(v) == [ref_id |-> v, info_type |-> OPERAND_INFO_TYPE_VARIABLE, info_flags |-> {}]
AddrVar(v) == [ref_id |-> v, info_type |-> OPERAND_INFO_TYPE_VARIABLE,
               info_flags |-> {OPERAND_FLAG_ADDRESS}]
\* The target of a jump: an instruction index.
Lbl(t) == [ref_id |-> t, info_type |-> OPERAND_INFO_TYPE_IMMEDIATE, info_flags |-> {}]

\* 0: COPY v0, imm   1: COPY v1, imm   2: ADD v0, v0, v1
\* 3: GOTO_EQ(v0, imm) -> 5   4: GOTO -> 2   5: RETURN v0
BackwardJumpFunction ==
    [opcodes |->
        <<Operation(OPCODE_COPY, Var(0), Imm, Imm),
          Operation(OPCODE_COPY, Var(1), Imm, Imm),
          Operation(OPCODE_ADD, Var(0), Var(0), Var(1)),
          Operation(OPCODE_GOTO_COND(COMPARISON_EQUAL), Lbl(5), Var(0), Imm),
          Operation(OPCODE_GOTO_BASE, Lbl(2), Imm, Imm),
          Operation(OPCODE_RETURN, Imm, Var(0), Imm)>>,
     variables_size |-> 2]

\* Assignments and read-modify operations of v0 between jumps to any
\* instruction of the function; v1 is declared and never used.
JumpOpcodes(n) ==
    {Operation(OPCODE_COPY, Var(0), Imm, Imm),
     Operation(OPCODE_ADD, Var(0), Imm, Imm)}
    \cup {Operation(OPCODE_GOTO_BASE, Lbl(t), Imm, Imm) : t \in 0..(n - 1)}

JumpFunctions ==
    UNION {{[opcodes |-> ops, variables_size |-> 2] : ops \in [1..n -> JumpOpcodes(n)]}
           : n \in 1..MaxOpcodes}

\* Uses of v0 in each operand position, with and without the ADDRESS flag.
OperandOpcodes ==
    {Operation(OPCODE_COPY, Var(0), Imm, Imm),
     Operation(OPCODE_COPY, AddrVar(0), Imm, Imm),
     Operation(OPCODE_COPY, Var(1), Var(0), Imm),
     Operation(OPCODE_COPY, Var(1), AddrVar(0), Imm),
     Operation(OPCODE_ADD, Var(1), Imm, Var(0)),
     Operation(OPCODE_ADD, Var(1), Imm, AddrVar(0)),
     Operation(OPCODE_ADD, Var(0), Imm, Imm),
     Operation(OPCODE_CALL, Var(0), Imm, Imm),
     Operation(OPCODE_RETURN, Imm, Var(0), Imm)}

OperandFunctions ==
    UNION {{[opcodes |-> ops, variables_size |-> 2] : ops \in [1..n -> OperandOpcodes]}
           : n \in 1..MaxOperandOpcodes}

Functions == {BackwardJumpFunction} \cup JumpFunctions \cup OperandFunctions

\* The words malloc's memory may hold: what an explicit initialization
\* would store, zero, and an index that lies beyond the shorter functions.
Indeterminate == {-1, 0, 3}

InitIR ==
    /\ InitEnc
    /\ input = <<>>
    /\ fn \in Functions
    /\ a = IdleAnalysis
    /\ pc = [phase |-> "start", i |-> 0]
    /\ heap \in Indeterminate

opcodes_size == Len(fn.opcodes)

\* The two allocations, and "Initialize variables".
Allocate ==
    /\ pc.phase = "start"
    /\ a' = [infos |-> [i \in 1..opcodes_size |->
                           [previous_label |-> heap, jump_from |-> heap]],
             variables |-> [v \in 1..fn.variables_size |->
                               [lifetime_start |-> -1, lifetime_end |-> -1, flags |-> {}]]]
    /\ pc' = [phase |-> "labels", i |-> 0]
    /\ UNCHANGED <<fn, heap>>
    /\ UNCHANGED encVars

LabelPass ==
    /\ pc.phase = "labels"
    /\ a' = [a EXCEPT !.infos = GenerateLabelData(fn, a.infos, opcodes_size - 1)]
    /\ pc' = [phase |-> "previous", i |-> 0]
    /\ UNCHANGED <<fn, heap>>
    /\ UNCHANGED encVars

PreviousLabelPass ==
    /\ pc.phase = "previous"
    /\ a' = [a EXCEPT !.infos = BuildPreviousLabels(a.infos, 0, -1)]
    /\ pc' = [phase |-> "lifetimes", i |-> 0]
    /\ UNCHANGED <<fn, heap>>
    /\ UNCHANGED encVars

\* One iteration of "Calculate variable lifetimes".
LifetimePass ==
    /\ pc.phase = "lifetimes"
    /\ a' = CalculateLifetime(fn, a, pc.i)
    /\ pc' = IF pc.i + 1 < opcodes_size
             THEN [phase |-> "lifetimes", i |-> pc.i + 1]
             ELSE [phase |-> "done", i |-> opcodes_size]
    /\ UNCHANGED <<fn, heap>>
    /\ UNCHANGED encVars

NextIR ==
    \/ Allocate
    \/ LabelPass
    \/ PreviousLabelPass
    \/ LifetimePass

SpecIR == InitIR /\ [][NextIR]_vars

-----------------------------------------------------------------------------
(* Properties of the analysis *)

Analysed == pc.phase = "done"

VariableIds == 0..(fn.variables_size - 1)
OpcodeIds == 0..(opcodes_size - 1)

\* a->variables[v]
Variable(v) == a.variables[v + 1]
Eternal(v) == VARIABLE_INFO_ETERNAL \in Variable(v).flags
Lifetime(v) == <<Variable(v).lifetime_start, Variable(v).lifetime_end>>

\* C7: the analysis of 0: COPY v0,imm; 1: COPY v1,imm; 2: ADD v0,v0,v1;
\* 3: GOTO_EQ(v0,imm) -> 5; 4: GOTO -> 2; 5: RETURN v0 gives
\* lifetime(v0) = [0, 6) and lifetime(v1) = [1, 5), neither ETERNAL.
C7_BackwardJumpLifetimes ==
    (Analysed /\ fn = BackwardJumpFunction) =>
        /\ Lifetime(0) = <<0, 6>>
        /\ Lifetime(1) = <<1, 5>>
        /\ ~Eternal(0)
        /\ ~Eternal(1)

\* C8 as stated: after the analysis, for every variable V that is not
\* ETERNAL and every opcode index j whose infos[j].jump_from lies in
\* [lifetime_start(V), lifetime_end(V)), j < lifetime_end(V).
C8_JumpSourceInside ==
    Analysed =>
        \A v \in VariableIds : \A j \in OpcodeIds :
            (/\ ~Eternal(v)
             /\ Info(a.infos, j).jump_from >= Variable(v).lifetime_start
             /\ Info(a.infos, j).jump_from < Variable(v).lifetime_end)
                => j < Variable(v).lifetime_end

\* C9 as stated: after the analysis every variable that is not ETERNAL has
\* 0 <= lifetime_start <= lifetime_end <= |opcodes|.
C9_LifetimeOrdered ==
    Analysed =>
        \A v \in VariableIds :
            ~Eternal(v) =>
                /\ 0 <= Variable(v).lifetime_start
                /\ Variable(v).lifetime_start <= Variable(v).lifetime_end
                /\ Variable(v).lifetime_end <= opcodes_size

\* Opcode i has v, with the ADDRESS flag, as operand k.
AddressTaken(v, i, k) ==
    LET operand == Operand(fn.opcodes[i + 1], k)
    IN /\ operand.info_type = OPERAND_INFO_TYPE_VARIABLE
       /\ operand.ref_id = v
       /\ OPERAND_FLAG_ADDRESS \in operand.info_flags

\* C10 as stated: after the analysis, a variable that some opcode refers to
\* with the ADDRESS flag, as target, primary_1 or primary_2, is ETERNAL.
C10_AddressTakenAnyOperand ==
    Analysed =>
        \A v \in VariableIds :
            (\E i \in OpcodeIds :
                \E k \in {OPERAND_TARGET, OPERAND_PRIMARY_1, OPERAND_PRIMARY_2} :
                    AddressTaken(v, i, k))
                => Eternal(v)

\* C10, amended: after the analysis, a variable that some opcode refers to
\* with the ADDRESS flag as primary_1 or primary_2 is ETERNAL, whatever
\* the other opcodes are.
C10_AddressTakenPrimary ==
    Analysed =>
        \A v \in VariableIds :
            (\E i \in OpcodeIds : \E k \in {OPERAND_PRIMARY_1, OPERAND_PRIMARY_2} :
                AddressTaken(v, i, k))
                => Eternal(v)

\* C10's case: v0 is assigned by the first opcode, its address is taken by
\* the second, and it is ETERNAL though it was initialized.
C10_Witness ==
    /\ Analysed
    /\ opcodes_size = 2
    /\ fn.opcodes[1] = Operation(OPCODE_COPY, Var(0), Imm, Imm)
    /\ \E k \in {OPERAND_PRIMARY_1, OPERAND_PRIMARY_2} : AddressTaken(0, 1, k)
    /\ Eternal(0)
    /\ VARIABLE_INFO_UNINITIALIZED \notin Variable(0).flags

\* Operand k of opcode i is the variable v.
Refers(v, i, k) ==
    LET operand == Operand(fn.opcodes[i + 1], k)
    IN operand.info_type = OPERAND_INFO_TYPE_VARIABLE /\ operand.ref_id = v

References(v, i) ==
    \E k \in {OPERAND_TARGET, OPERAND_PRIMARY_1, OPERAND_PRIMARY_2} : Refers(v, i, k)

\* Opcode i reads v through primary operand k (not its address).
ReadsPrimary(v, i, k) ==
    LET op == fn.opcodes[i + 1]
    IN /\ Refers(v, i, k)
       /\ OPERAND_FLAG_ADDRESS \notin Operand(op, k).info_flags
       /\ IF k = OPERAND_PRIMARY_1 THEN opcode_read_operand_primary_1(op)
          ELSE opcode_read_operand_primary_2(op)

\* Opcode i is a read-modify opcode with v as its target.
ReadsTarget(v, i) ==
    LET op == fn.opcodes[i + 1]
    IN /\ Refers(v, i, OPERAND_TARGET)
       /\ opcode_modifies_target_operand(op)
       /\ ~opcode_is_pure_assignment(op)

\* Opcode i purely assigns v: v is the target of a COPY or a CALL.
PurelyAssigns(v, i) ==
    Refers(v, i, OPERAND_TARGET) /\ opcode_is_pure_assignment(fn.opcodes[i + 1])

ReadsVariable(v, i) ==
    \/ ReadsPrimary(v, i, OPERAND_PRIMARY_1)
    \/ ReadsPrimary(v, i, OPERAND_PRIMARY_2)
    \/ ReadsTarget(v, i)

FirstReference(v, i) ==
    References(v, i) /\ \A j \in OpcodeIds : j < i => ~References(v, j)

\* C11: after the analysis, a variable whose first referencing opcode reads
\* it (through primary_1, primary_2 or the target of a read-modify opcode)
\* and does not purely assign it is flagged ETERNAL and UNINITIALIZED.
C11_ReadBeforeWrite ==
    Analysed =>
        \A v \in VariableIds : \A i \in OpcodeIds :
            (FirstReference(v, i) /\ ReadsVariable(v, i) /\ ~PurelyAssigns(v, i))
                => /\ VARIABLE_INFO_ETERNAL \in Variable(v).flags
                   /\ VARIABLE_INFO_UNINITIALIZED \in Variable(v).flags

\* The jumps of the function whose target is instruction t.
JumpSources(t) ==
    {i \in OpcodeIds : /\ opcode_is_jump(fn.opcodes[i + 1])
                       /\ Operand(fn.opcodes[i + 1], OPERAND_TARGET).ref_id = t}

LatestJump(t) ==
    IF JumpSources(t) = {} THEN -1
    ELSE CHOOSE i \in JumpSources(t) : \A j \in JumpSources(t) : j <= i

LabelsGenerated == pc.phase \in {"previous", "lifetimes", "done"}

\* C12: once pass 1 has run, infos[t].jump_from is, for every instruction t,
\* the highest index of a jump whose target is t, and -1 when no jump
\* targets t, whatever the infos array held before pass 1.
C12_JumpSourceDiscovery ==
    LabelsGenerated =>
        \A t \in OpcodeIds : Info(a.infos, t).jump_from = LatestJump(t)

\* The opcode "Calculate variable lifetimes" has just processed, or -1.
LastProcessed ==
    IF pc.phase = "lifetimes" THEN pc.i - 1
    ELSE IF pc.phase = "done" THEN opcodes_size - 1
    ELSE -1

Unused(v) == VARIABLE_INFO_UNUSED \in Variable(v).flags

\* C13: right after an opcode is processed, a variable that is not ETERNAL
\* has UNUSED set if the opcode purely assigns it without reading it, and
\* has UNUSED clear if the opcode reads it.
C13_UnusedProtocol ==
    LastProcessed >= 0 =>
        \A v \in VariableIds :
            ~Eternal(v) =>
                /\ (PurelyAssigns(v, LastProcessed) /\ ~ReadsVariable(v, LastProcessed))
                       => Unused(v)
                /\ ReadsVariable(v, LastProcessed) => ~Unused(v)

\* Opcode i writes v as its target.
WritesTarget(v, i) ==
    LET op == fn.opcodes[i + 1]
    IN /\ Refers(v, i, OPERAND_TARGET)
       /\ (opcode_is_pure_assignment(op) \/ opcode_modifies_target_operand(op))

\* C14: after the analysis, every opcode index at which a variable that is
\* not ETERNAL is written as target or read as primary_1 / primary_2 lies in
\* the variable's lifetime: lifetime_start <= i < lifetime_end.
C14_LifetimeCoverage ==
    Analysed =>
        \A v \in VariableIds : \A i \in OpcodeIds :
            (/\ ~Eternal(v)
             /\ \/ WritesTarget(v, i)
                \/ ReadsPrimary(v, i, OPERAND_PRIMARY_1)
                \/ ReadsPrimary(v, i, OPERAND_PRIMARY_2))
                => /\ Variable(v).lifetime_start <= i
                   /\ i < Variable(v).lifetime_end

=============================================================================
